---------------------------- MODULE Spec2Model ----------------------------
(***************************************************************************)
(* A model of m2-rslox: the scanner (scanner.rs), the single-pass Pratt    *)
(* compiler (compiler.rs), the chunk (chunk.rs), the values (value.rs) and *)
(* the stack VM (vm.rs), driven by a sequence of VM::interpret calls.      *)
(*                                                                         *)
(* A source is a sequence of characters; a character is a string.  A       *)
(* character of more than one UTF-8 byte is written by its code point      *)
(* name ("U+00E9").  A Rust panic (an unwrap of None, a slice off a char   *)
(* boundary, an index out of range) ends the process: pc = "panicked".     *)
(*                                                                         *)
(* A Number is an exact rational sign*n/d extended with the two            *)
(* infinities (n = 1, d = 0), NaN (n = 0, d = 0) and the sign of zero; the *)
(* rounding of f64 is not modelled.                                        *)
(***************************************************************************)
EXTENDS Integers, Sequences, FiniteSets, TLC

(***************************************************************************)
(* Characters                                                              *)
(***************************************************************************)
Digits == {"0", "1", "2", "3", "4", "5", "6", "7", "8", "9"}

Letters ==
    {"a", "b", "c", "d", "e", "f", "g", "h", "i", "j", "k", "l", "m",
     "n", "o", "p", "q", "r", "s", "t", "u", "v", "w", "x", "y", "z",
     "A", "B", "C", "D", "E", "F", "G", "H", "I", "J", "K", "L", "M",
     "N", "O", "P", "Q", "R", "S", "T", "U", "V", "W", "X", "Y", "Z"}

IsAsciiDigit(c) == c \in Digits

IsAsciiAlphanumeric(c) == c \in Digits \/ c \in Letters

IsWhitespace(c) == c \in {" ", "\t", "\r", "\n"}

\* char::len_utf8
LenUtf8(c) == IF c = "U+00E9" THEN 2 ELSE 1

DigitValue(c) ==
    CASE c = "0" -> 0 [] c = "1" -> 1 [] c = "2" -> 2 [] c = "3" -> 3
      [] c = "4" -> 4 [] c = "5" -> 5 [] c = "6" -> 6 [] c = "7" -> 7
      [] c = "8" -> 8 [] c = "9" -> 9

(***************************************************************************)
(* Tokens                                                                  *)
(***************************************************************************)
Token(token_type, span, line) ==
    [token_type |-> token_type, span |-> span, line |-> line]

\* Option::None in Parser::previous and Parser::current
None == [token_type |-> "None", span |-> <<>>, line |-> 0]

IsSome(tok) == tok.token_type # "None"

(***************************************************************************)
(* Scanner: the state is [source, line]; every operation returns a record  *)
(* [kind, tok, msg, source, line] with kind one of "tok" (Ok(Some)), "eof" *)
(* (Ok(None)), "err" (Err(msg)) and "panic".                               *)
(***************************************************************************)
ScanOut(kind, tok, msg, source, line) ==
    [kind |-> kind, tok |-> tok, msg |-> msg, source |-> source, line |-> line]

DropFirst(s, n) == SubSeq(s, n + 1, Len(s))

\* &self.source[offset..] with offset = 1: a slice off a char boundary panics
CanAdvance1(s) == s # <<>> /\ LenUtf8(s[1]) = 1

\* make_token: split_at(length) and the line counter as it stands now
MakeToken(s, line, token_type, length) ==
    ScanOut("tok", Token(token_type, SubSeq(s, 1, length), line), "",
            DropFirst(s, length), line)

RECURSIVE TrimBlanks(_)
\* trim_start_matches(|c| c.is_whitespace() && c != '\n')
TrimBlanks(s) ==
    IF s # <<>> /\ IsWhitespace(s[1]) /\ s[1] # "\n"
    THEN TrimBlanks(Tail(s))
    ELSE s

RECURSIVE TrimToNewline(_)
\* trim_start_matches(|c| c != '\n')
TrimToNewline(s) ==
    IF s # <<>> /\ s[1] # "\n" THEN TrimToNewline(Tail(s)) ELSE s

RECURSIVE SkipWhitespace(_, _)
SkipWhitespace(s, line) ==
    LET t == TrimBlanks(s)
    IN  IF t = <<>> THEN [source |-> t, line |-> line]
        ELSE IF t[1] = "/"
        THEN IF Len(t) >= 2 /\ t[2] = "/"
             THEN SkipWhitespace(TrimToNewline(t), line)
             ELSE [source |-> t, line |-> line]
        ELSE IF t[1] = "\n"
        THEN SkipWhitespace(Tail(t), line + 1)
        ELSE [source |-> t, line |-> line]

RECURSIVE StringScan(_, _, _)
\* The loop of Scanner::string from character i on: the line counter counts
\* every newline it passes; at the closing quote the token is made with the
\* counter as it then stands; with no closing quote the opening quote alone
\* is skipped and the counter keeps what it counted.
StringScan(s, i, line) ==
    IF i > Len(s)
    THEN ScanOut("err", None, "Unterminated string", DropFirst(s, 1), line)
    ELSE LET l2 == IF s[i] = "\n" THEN line + 1 ELSE line
         IN  IF s[i] = "\""
             THEN MakeToken(s, l2, "String", i)
             ELSE StringScan(s, i + 1, l2)

ScanString(s, line) == StringScan(s, 2, line)

RECURSIVE SkipDigits(_, _)
\* skip_while(is_ascii_digit).next(): the index of the first character from
\* i on that is no digit, 0 when there is none
SkipDigits(s, i) ==
    IF i > Len(s) THEN 0
    ELSE IF IsAsciiDigit(s[i]) THEN SkipDigits(s, i + 1) ELSE i

ScanNumber(s, line) ==
    LET end == SkipDigits(s, 1)
        next_num == end # 0 /\ end + 1 <= Len(s) /\ IsAsciiDigit(s[end + 1])
        length ==
            IF end # 0 /\ s[end] = "." /\ next_num
            THEN LET end2 == SkipDigits(s, end + 2)
                 IN  IF end2 # 0 THEN end2 - 1 ELSE Len(s)
            ELSE IF end # 0 THEN end - 1
            ELSE Len(s)
    IN  MakeToken(s, line, "Number", length)

RECURSIVE SkipIdent(_, _)
\* skip(1).skip_while(alphanumeric or '_').next()
SkipIdent(s, i) ==
    IF i > Len(s) THEN 0
    ELSE IF IsAsciiAlphanumeric(s[i]) \/ s[i] = "_" THEN SkipIdent(s, i + 1)
    ELSE i

IdentifierType(span) ==
    LET c1 == IF Len(span) >= 1 THEN span[1] ELSE "NUL"
        r1 == IF Len(span) >= 1 THEN Tail(span) ELSE <<>>
        c2 == IF Len(r1) >= 1 THEN r1[1] ELSE "NUL"
        r2 == IF Len(r1) >= 1 THEN Tail(r1) ELSE <<>>
    IN  CASE c1 = "a" /\ r1 = <<"n", "d">> -> "And"
          [] c1 = "c" /\ r1 = <<"l", "a", "s", "s">> -> "Class"
          [] c1 = "e" /\ r1 = <<"l", "s", "e">> -> "Else"
          [] c1 = "f" ->
                CASE c2 = "a" /\ r2 = <<"l", "s", "e">> -> "False"
                  [] c2 = "o" /\ r2 = <<"r">> -> "For"
                  [] c2 = "u" /\ r2 = <<"n">> -> "Fun"
                  [] OTHER -> "Identifier"
          [] c1 = "i" /\ r1 = <<"f">> -> "If"
          [] c1 = "n" /\ r1 = <<"i", "l">> -> "Nil"
          [] c1 = "o" /\ r1 = <<"r">> -> "Or"
          [] c1 = "p" /\ r1 = <<"r", "i", "n", "t">> -> "Print"
          [] c1 = "r" /\ r1 = <<"e", "t", "u", "r", "n">> -> "Return"
          [] c1 = "s" /\ r1 = <<"u", "p", "e", "r">> -> "Super"
          [] c1 = "t" ->
                CASE c2 = "h" /\ r2 = <<"i", "s">> -> "This"
                  [] c2 = "r" /\ r2 = <<"u", "e">> -> "True"
                  [] OTHER -> "Identifier"
          [] c1 = "v" /\ r1 = <<"a", "r">> -> "Var"
          [] c1 = "w" /\ r1 = <<"h", "i", "l", "e">> -> "While"
          [] OTHER -> "Identifier"

\* Scanner::identifier: the unwrap panics when the run of identifier
\* characters reaches the end of the source
ScanIdentifier(s, line) ==
    LET end == SkipIdent(s, 2)
    IN  IF end = 0 THEN ScanOut("panic", None, "", s, line)
        ELSE MakeToken(s, line, IdentifierType(SubSeq(s, 1, end - 1)), end - 1)

SingleCharType(ch) ==
    CASE ch = "(" -> "LeftParen" [] ch = ")" -> "RightParen"
      [] ch = "{" -> "LeftBrace" [] ch = "}" -> "RightBrace"
      [] ch = ";" -> "Semicolon" [] ch = "," -> "Comma"
      [] ch = "." -> "Dot" [] ch = "-" -> "Minus"
      [] ch = "+" -> "Plus" [] ch = "/" -> "Slash"
      [] ch = "*" -> "Star" [] ch = "!" -> "Bang"
      [] ch = "=" -> "Equal" [] ch = "<" -> "Less"
      [] ch = ">" -> "Greater" [] OTHER -> "None"

\* The match of scan_token on the first character of what is left
ScanChar(s, line, ch, next_ch) ==
    CASE ch = "\"" -> ScanString(s, line)
      [] IsAsciiDigit(ch) -> ScanNumber(s, line)
      [] ch \in Letters \/ ch = "_" -> ScanIdentifier(s, line)
      [] ch = "!" /\ next_ch = "=" -> MakeToken(s, line, "BangEqual", 2)
      [] ch = "=" /\ next_ch = "=" -> MakeToken(s, line, "EqualEqual", 2)
      [] ch = "<" /\ next_ch = "=" -> MakeToken(s, line, "LessEqual", 2)
      [] ch = ">" /\ next_ch = "=" -> MakeToken(s, line, "GreaterEqual", 2)
      [] OTHER ->
            IF SingleCharType(ch) # "None"
            THEN MakeToken(s, line, SingleCharType(ch), 1)
            ELSE IF CanAdvance1(s)
            THEN ScanOut("err", None, "Unexpected character", DropFirst(s, 1), line)
            ELSE ScanOut("panic", None, "", s, line)

\* scan_token after skip_whitespace
ScanAfterSkip(s, line) ==
    IF s = <<>> THEN ScanOut("eof", None, "", s, line)
    ELSE ScanChar(s, line, s[1], IF Len(s) >= 2 THEN s[2] ELSE "NUL")

ScanSkipped(skipped) == ScanAfterSkip(skipped.source, skipped.line)

ScanToken(source, line) == ScanSkipped(SkipWhitespace(source, line))

(***************************************************************************)
(* Values (value.rs)                                                       *)
(***************************************************************************)
RECURSIVE Gcd(_, _)
Gcd(a, b) == IF b = 0 THEN a ELSE Gcd(b, a % b)

Abs(x) == IF x < 0 THEN -x ELSE x

\* An f64: sign * n / d in lowest terms; d = 0 is an infinity (n = 1) or
\* NaN (n = 0, sign 1); zero keeps its sign
Num(sign, n, d) ==
    IF d = 0 THEN IF n = 0 THEN [sign |-> 1, n |-> 0, d |-> 0]
                  ELSE [sign |-> sign, n |-> 1, d |-> 0]
    ELSE IF n = 0 THEN [sign |-> sign, n |-> 0, d |-> 1]
    ELSE LET g == Gcd(n, d) IN [sign |-> sign, n |-> n \div g, d |-> d \div g]

NaN == Num(1, 0, 0)

IsNaN(x) == x.d = 0 /\ x.n = 0

IsInf(x) == x.d = 0 /\ x.n = 1

IsZero(x) == x.d # 0 /\ x.n = 0

\* f64 negation
NumNeg(x) == IF IsNaN(x) THEN x ELSE [x EXCEPT !.sign = -x.sign]

\* f64 addition
NumAdd(x, y) ==
    IF IsNaN(x) \/ IsNaN(y) THEN NaN
    ELSE IF IsInf(x) /\ IsInf(y) THEN (IF x.sign = y.sign THEN x ELSE NaN)
    ELSE IF IsInf(x) THEN x
    ELSE IF IsInf(y) THEN y
    ELSE LET num == x.sign * x.n * y.d + y.sign * y.n * x.d
             den == x.d * y.d
         IN  IF num = 0
             THEN Num(IF IsZero(x) /\ IsZero(y) /\ x.sign = -1 /\ y.sign = -1
                      THEN -1 ELSE 1, 0, 1)
             ELSE Num(IF num < 0 THEN -1 ELSE 1, Abs(num), den)

\* f64 subtraction
NumSub(x, y) == NumAdd(x, NumNeg(y))

\* f64 multiplication
NumMul(x, y) ==
    IF IsNaN(x) \/ IsNaN(y) \/ (IsInf(x) /\ IsZero(y)) \/ (IsZero(x) /\ IsInf(y))
    THEN NaN
    ELSE Num(x.sign * y.sign, x.n * y.n, x.d * y.d)

\* f64 division
NumDiv(x, y) ==
    IF IsNaN(x) \/ IsNaN(y) \/ (IsZero(x) /\ IsZero(y)) \/ (IsInf(x) /\ IsInf(y))
    THEN NaN
    ELSE Num(x.sign * y.sign, x.n * y.d, x.d * y.n)

Nil == [tag |-> "Nil", b |-> FALSE, num |-> Num(1, 0, 1)]

Bool(b) == [tag |-> "Bool", b |-> b, num |-> Num(1, 0, 1)]

Number(x) == [tag |-> "Number", b |-> FALSE, num |-> x]

IsNumber(v) == v.tag = "Number"

\* impl ops::Neg, Add, Sub, Mul, Div for Value: the VM calls them on Numbers
\* only (the other arm panics)
ValueNeg(v) == Number(NumNeg(v.num))

ValueAdd(a, b) == Number(NumAdd(a.num, b.num))

ValueSub(a, b) == Number(NumSub(a.num, b.num))

ValueMul(a, b) == Number(NumMul(a.num, b.num))

ValueDiv(a, b) == Number(NumDiv(a.num, b.num))

RECURSIVE DigitsToNat(_, _)
DigitsToNat(digits, acc) ==
    IF digits = <<>> THEN acc
    ELSE DigitsToNat(Tail(digits), 10 * acc + DigitValue(digits[1]))

RECURSIVE Pow10(_)
Pow10(k) == IF k = 0 THEN 1 ELSE 10 * Pow10(k - 1)

\* str::parse::<f64> of a Number token's span: digits, or digits '.' digits
ParseNumber(span) ==
    LET dot == SkipDigits(span, 1)
        whole == IF dot = 0 THEN span ELSE SubSeq(span, 1, dot - 1)
        frac == IF dot = 0 THEN <<>> ELSE SubSeq(span, dot + 1, Len(span))
    IN  Num(1, DigitsToNat(whole \o frac, 0), Pow10(Len(frac)))

(***************************************************************************)
(* Chunk (chunk.rs)                                                        *)
(***************************************************************************)
U8Max == 255

Op(op) == [op |-> op, id |-> 0]

Constant(id) == [op |-> "Constant", id |-> id]

\* Chunk::new, in an Option<Chunk> (some: Some or None)
NewChunk == [some |-> TRUE, code |-> <<>>, lines |-> <<>>, constants |-> <<>>]

\* Option<Chunk>::None
NoChunk == [some |-> FALSE, code |-> <<>>, lines |-> <<>>, constants |-> <<>>]

\* A write that records a line only when it differs from the last one
WriteNewLinesOnly(chunk, op, line) ==
    [chunk EXCEPT !.code = Append(@, op),
                  !.lines = IF @ # <<>> /\ @[Len(@)] = line THEN @
                            ELSE Append(@, line)]

Write(chunk, op, line) ==
    [chunk EXCEPT !.code = Append(@, op), !.lines = Append(@, line)]

\* An add_constant that returns the length of the pool after the push
AddConstantLength(chunk, value) ==
    [chunk |-> [chunk EXCEPT !.constants = Append(@, value)],
     id |-> Len(chunk.constants) + 1,
     panicked |-> Len(chunk.constants) > U8Max]

\* add_constant: the push, then (len - 1).try_into::<u8>().unwrap()
AddConstant(chunk, value) ==
    LET constants == Append(chunk.constants, value)
    IN  [chunk |-> [chunk EXCEPT !.constants = constants],
         id |-> Len(constants) - 1,
         panicked |-> Len(constants) - 1 > U8Max]

(***************************************************************************)
(* Parser (compiler.rs): the operations work on an environment             *)
(* [parser, stderr, panicked]: the parser, the diagnostic stream it writes *)
(* to, and whether the operation panicked.                                 *)
(***************************************************************************)
\* eprintln!("[line {}] Error at '{}': {}") and "[line {}] Error at end: {}"
ErrorLine(line, at_end, span, msg) ==
    [kind |-> "error", line |-> line, at_end |-> at_end, span |-> span,
     msg |-> msg, value |-> Nil]

NewParser(source) ==
    [scanner |-> [source |-> source, line |-> 1],
     previous |-> None, current |-> None,
     had_error |-> FALSE, panic_mode |-> FALSE]

Env(parser, stderr) == [parser |-> parser, stderr |-> stderr, panicked |-> FALSE]

\* An error_at without the panic_mode guard
ErrorAtUnguarded(env, source, message) ==
    LET token == IF source = "Current" THEN env.parser.current
                 ELSE env.parser.previous
        line == IF IsSome(token)
                THEN ErrorLine(token.line, FALSE, token.span, message)
                ELSE ErrorLine(env.parser.scanner.line, TRUE, <<>>, message)
    IN  [env EXCEPT !.parser.panic_mode = TRUE,
                    !.parser.had_error = TRUE,
                    !.stderr = Append(@, line)]

\* Parser::error_at
ErrorAt(env, source, message) ==
    IF env.parser.panic_mode THEN env
    ELSE LET token == IF source = "Current" THEN env.parser.current
                      ELSE env.parser.previous
             line == IF IsSome(token)
                     THEN ErrorLine(token.line, FALSE, token.span, message)
                     ELSE ErrorLine(env.parser.scanner.line, TRUE, <<>>, message)
         IN  [env EXCEPT !.parser.panic_mode = TRUE,
                         !.parser.had_error = TRUE,
                         !.stderr = Append(@, line)]

Error(env, message) == ErrorAt(env, "Previous", message)

ErrorAtCurrent(env, message) == ErrorAt(env, "Current", message)

\* The scanner of the environment after a scan_token that returned r
Scanned(env, r) ==
    [env EXCEPT !.parser.scanner = [source |-> r.source, line |-> r.line]]

RECURSIVE AdvanceLoop(_)
RECURSIVE AdvanceMatch(_, _)
\* The match of the loop of Parser::advance on what scan_token returned
AdvanceMatch(env, r) ==
    CASE r.kind = "tok" -> [env EXCEPT !.parser.current = r.tok]
      [] r.kind = "eof" -> [env EXCEPT !.parser.current = None]
      [] r.kind = "err" -> AdvanceLoop(ErrorAtCurrent(env, r.msg))
      [] OTHER -> [env EXCEPT !.panicked = TRUE]

AdvanceScanned(env, r) == AdvanceMatch(Scanned(env, r), r)

\* The loop of Parser::advance: scan until a token or the end of the input
AdvanceLoop(env) ==
    AdvanceScanned(env, ScanToken(env.parser.scanner.source, env.parser.scanner.line))

\* Parser::advance: previous = current.take(), then the loop
ParserAdvance(env) ==
    AdvanceLoop([env EXCEPT !.parser.previous = env.parser.current,
                            !.parser.current = None])

Consume(env, token_type, message) ==
    IF IsSome(env.parser.current) /\ env.parser.current.token_type = token_type
    THEN ParserAdvance(env)
    ELSE ErrorAtCurrent(env, message)

PrecOrd(p) ==
    CASE p = "None" -> 0 [] p = "Assignment" -> 1 [] p = "Or" -> 2
      [] p = "And" -> 3 [] p = "Equality" -> 4 [] p = "Comparison" -> 5
      [] p = "Term" -> 6 [] p = "Factor" -> 7 [] p = "Unary" -> 8
      [] p = "Call" -> 9 [] p = "Primary" -> 10

\* A below that stays on the level it is given
BelowSameLevel(p) == p

\* Precedence::below: the next level up
Below(p) ==
    CASE p = "None" -> "None" [] p = "Assignment" -> "Or" [] p = "Or" -> "And"
      [] p = "And" -> "Equality" [] p = "Equality" -> "Comparison"
      [] p = "Comparison" -> "Term" [] p = "Term" -> "Factor"
      [] p = "Factor" -> "Unary" [] p = "Unary" -> "Call"
      [] p = "Call" -> "Primary" [] p = "Primary" -> "Primary"

\* impl Into<ParseRule> for TokenType
ParseRule(tt) ==
    LET rule(prefix, infix, prec) ==
            [prefix |-> prefix, infix |-> infix, precedence |-> prec]
    IN  CASE tt = "LeftParen" -> rule("grouping", "None", "None")
          [] tt = "Minus" -> rule("unary", "binary", "Term")
          [] tt = "Plus" -> rule("None", "binary", "Term")
          [] tt \in {"Slash", "Star"} -> rule("None", "binary", "Factor")
          [] tt = "Number" -> rule("number", "None", "None")
          [] tt \in {"False", "True", "Nil"} -> rule("literal", "None", "None")
          [] tt = "Bang" -> rule("unary", "None", "None")
          [] tt \in {"BangEqual", "EqualEqual"} -> rule("None", "binary", "Equality")
          [] tt \in {"Greater", "GreaterEqual", "Less", "LessEqual"} ->
                rule("None", "binary", "Comparison")
          [] OTHER -> rule("None", "None", "None")

\* Compiler::emit: the line of the previous token, 0 when there is none
Emit(chunk, parser, op) ==
    Write(chunk, op, IF IsSome(parser.previous) THEN parser.previous.line ELSE 0)

\* Compiler::emit_constant with make_constant: nothing is emitted when
\* add_constant panicked
EmitMade(made, parser) ==
    [chunk |-> IF made.panicked THEN made.chunk
               ELSE Emit(made.chunk, parser, Constant(made.id)),
     panicked |-> made.panicked]

EmitConstant(chunk, parser, value) == EmitMade(AddConstant(chunk, value), parser)

\* A binary that negates the operator itself for >= and <=
BinaryOpsNegatedSelf(operator_type) ==
    CASE operator_type = "Plus" -> <<Op("Add")>>
      [] operator_type = "Minus" -> <<Op("Substract")>>
      [] operator_type = "Star" -> <<Op("Multiply")>>
      [] operator_type = "Slash" -> <<Op("Divide")>>
      [] operator_type = "BangEqual" -> <<Op("Equal"), Op("Not")>>
      [] operator_type = "EqualEqual" -> <<Op("Equal")>>
      [] operator_type = "Greater" -> <<Op("Greater")>>
      [] operator_type = "GreaterEqual" -> <<Op("Greater"), Op("Not")>>
      [] operator_type = "Less" -> <<Op("Less")>>
      [] operator_type = "LessEqual" -> <<Op("Less"), Op("Not")>>

\* The instructions Compiler::binary emits for an operator
BinaryOps(operator_type) ==
    CASE operator_type = "Plus" -> <<Op("Add")>>
      [] operator_type = "Minus" -> <<Op("Substract")>>
      [] operator_type = "Star" -> <<Op("Multiply")>>
      [] operator_type = "Slash" -> <<Op("Divide")>>
      [] operator_type = "BangEqual" -> <<Op("Equal"), Op("Not")>>
      [] operator_type = "EqualEqual" -> <<Op("Equal")>>
      [] operator_type = "Greater" -> <<Op("Greater")>>
      [] operator_type = "GreaterEqual" -> <<Op("Less"), Op("Not")>>
      [] operator_type = "Less" -> <<Op("Less")>>
      [] operator_type = "LessEqual" -> <<Op("Greater"), Op("Not")>>

(***************************************************************************)
(* VM helpers (vm.rs).  A machine record m is the VM inside one iteration  *)
(* of the loop of VM::run, after the fetch has incremented ip: [chunk, ip, *)
(* stack, stderr, outcome], outcome one of "continue", "Ok",               *)
(* "RuntimeError" and "panic".                                             *)
(***************************************************************************)
\* eprintln!("{}", value)
ValueLine(v) ==
    [kind |-> "value", line |-> 0, at_end |-> FALSE, span |-> <<>>,
     msg |-> "", value |-> v]

\* eprintln!("{}", message)
MessageLine(message) ==
    [kind |-> "message", line |-> 0, at_end |-> FALSE, span |-> <<>>,
     msg |-> message, value |-> Nil]

\* eprintln!("[line {}] in script", line)
InScriptLine(line) ==
    [kind |-> "in_script", line |-> line, at_end |-> FALSE, span |-> <<>>,
     msg |-> "", value |-> Nil]

Machine(c, i, s, err) ==
    [chunk |-> c, ip |-> i, stack |-> s, stderr |-> err, outcome |-> "continue"]

Push(m, value) == [m EXCEPT !.stack = Append(@, value)]

\* The value VM::pop returns and the machine after it (on a stack that is
\* not empty: the callers test HasValues first, the unwrap panics otherwise)
Top(m) == m.stack[Len(m.stack)]

Pop(m) == [m EXCEPT !.stack = SubSeq(@, 1, Len(@) - 1)]

\* VM::peek(distance) on a stack that holds it
Peek(m, distance) == m.stack[Len(m.stack) - distance]

HasValues(m, n) == Len(m.stack) >= n

Panicked(m) == [m EXCEPT !.outcome = "panic"]

\* A reset that drops the top value only
ResetStackTop(m) ==
    [m EXCEPT !.stack = IF @ = <<>> THEN @ ELSE SubSeq(@, 1, Len(@) - 1)]

\* VM::reset_stack
ResetStack(m) == [m EXCEPT !.stack = <<>>]

\* A runtime_error that prints lines[ip], the line of the next instruction
RuntimeErrorNextLine(m, message) ==
    ResetStack([m EXCEPT !.stderr =
        @ \o <<MessageLine(message), InScriptLine(m.chunk.lines[m.ip + 1])>>])

\* A runtime_error that leaves the stack as it is
RuntimeErrorKeepsStack(m, message) ==
    [m EXCEPT !.stderr =
        @ \o <<MessageLine(message), InScriptLine(m.chunk.lines[m.ip])>>]

\* VM::runtime_error: the message, the line of lines[ip - 1], reset_stack
RuntimeError(m, message) ==
    ResetStack([m EXCEPT !.stderr =
        @ \o <<MessageLine(message), InScriptLine(m.chunk.lines[m.ip])>>])

\* A Return that prints the top of the stack and leaves it there
ExecReturnPeek(m) ==
    IF ~HasValues(m, 1) THEN Panicked(m)
    ELSE [m EXCEPT !.stderr = Append(@, ValueLine(Top(m))), !.outcome = "Ok"]

\* The arms of VM::run
ExecReturn(m) ==
    IF ~HasValues(m, 1) THEN Panicked(m)
    ELSE [Pop(m) EXCEPT !.stderr = Append(@, ValueLine(Top(m))),
                        !.outcome = "Ok"]

ExecNegate(m) ==
    IF ~HasValues(m, 1) THEN Panicked(m)
    ELSE IF IsNumber(Peek(m, 0))
    THEN Push(Pop(m), ValueNeg(Top(m)))
    ELSE [RuntimeError(m, "Operand must be a number")
            EXCEPT !.outcome = "RuntimeError"]

ExecConstant(m, id) ==
    IF id + 1 > Len(m.chunk.constants) THEN Panicked(m)
    ELSE Push(m, m.chunk.constants[id + 1])

ApplyOp(op_func, a, b) ==
    CASE op_func = "add" -> ValueAdd(a, b)
      [] op_func = "sub" -> ValueSub(a, b)
      [] op_func = "mul" -> ValueMul(a, b)
      [] op_func = "div" -> ValueDiv(a, b)

\* VM::binary_op
BinaryOp(m, op_func) ==
    IF ~HasValues(m, 2) THEN Panicked(m)
    ELSE IF IsNumber(Peek(m, 0)) /\ IsNumber(Peek(m, 1))
    THEN LET b == Top(m)
             a == Top(Pop(m))
         IN  Push(Pop(Pop(m)), ApplyOp(op_func, a, b))
    ELSE [RuntimeError(m, "Opernds must be numbers")
            EXCEPT !.outcome = "RuntimeError"]

\* Value::is_falsey
IsFalsey(v) == v.tag = "Nil" \/ (v.tag = "Bool" /\ ~v.b)

\* impl ops::Not for Value
ValueNot(v) == Bool(IsFalsey(v))

\* f64 ==: NaN equals nothing, the two zeros are equal
NumEq(x, y) == ~IsNaN(x) /\ ~IsNaN(y) /\ ((IsZero(x) /\ IsZero(y)) \/ x = y)

\* f64 <
NumLess(x, y) ==
    IF IsNaN(x) \/ IsNaN(y) \/ NumEq(x, y) THEN FALSE
    ELSE IF IsInf(x) THEN x.sign = -1
    ELSE IF IsInf(y) THEN y.sign = 1
    ELSE x.sign * x.n * y.d < y.sign * y.n * x.d

\* #[derive(PartialEq)] on Value
ValueEq(a, b) ==
    /\ a.tag = b.tag
    /\ CASE a.tag = "Nil" -> TRUE
         [] a.tag = "Bool" -> a.b = b.b
         [] a.tag = "Number" -> NumEq(a.num, b.num)

\* The arms of the VM for Not, Equal, Greater and Less: the VM of vm.rs has
\* none (its OpCode has no such variant); they follow the opcode table and
\* the type discipline of the specification.
ExecNot(m) ==
    IF ~HasValues(m, 1) THEN Panicked(m)
    ELSE Push(Pop(m), ValueNot(Top(m)))

ExecEqual(m) ==
    IF ~HasValues(m, 2) THEN Panicked(m)
    ELSE Push(Pop(Pop(m)), Bool(ValueEq(Top(Pop(m)), Top(m))))

ExecCompare(m, op) ==
    IF ~HasValues(m, 2) THEN Panicked(m)
    ELSE IF IsNumber(Peek(m, 0)) /\ IsNumber(Peek(m, 1))
    THEN LET b == Top(m).num
             a == Top(Pop(m)).num
         IN  Push(Pop(Pop(m)),
                  Bool(IF op = "Greater" THEN NumLess(b, a) ELSE NumLess(a, b)))
    ELSE [RuntimeError(m, "Operands must be numbers")
            EXCEPT !.outcome = "RuntimeError"]

\* The exit code run_file maps the result of interpret to
ExitCode(res) ==
    CASE res = "CompileError" -> 65 [] res = "RuntimeError" -> 70 [] res = "Ok" -> 0

(***************************************************************************)
(* State                                                                   *)
(***************************************************************************)
VARIABLES
    input,            \* the sources still to be interpreted (file, or prompt lines)
    pc,               \* "idle", "compiling", "running", "panicked"
    src,              \* the source of the current (or last) interpret call
    parser,           \* Compiler::parser
    compiling_chunk,  \* Compiler::compiling_chunk
    frames,           \* the compiler's call stack, the running function first
    chunk, ip, stack, \* the VM
    stderr,           \* the diagnostic stream
    result            \* what the last interpret call returned, "None" before

vars == <<input, pc, src, parser, compiling_chunk, frames, chunk, ip, stack,
          stderr, result>>

vm == <<chunk, ip, stack>>

Frame(fn, precedence, operator_type) ==
    [fn |-> fn, precedence |-> precedence, operator_type |-> operator_type]

Running(fn) == pc = "compiling" /\ frames # <<>> /\ frames[1].fn = fn

\* The function on top returns
PopFrame == Tail(frames)

\* The function on top calls the functions `called` in turn and goes on as
\* `next`
Call(called, next) == called \o <<next>> \o Tail(frames)

\* What an operation on the parser leaves: the parser, the diagnostic
\* stream and, after a panic, the end of the process
Leave(env, next_frames) ==
    /\ parser' = env.parser
    /\ stderr' = env.stderr
    /\ IF env.panicked
       THEN pc' = "panicked" /\ frames' = frames
       ELSE pc' = pc /\ frames' = next_frames

(***************************************************************************)
(* The compiler, one action per function of compiler.rs (per part of it    *)
(* between two calls of a parse function)                                  *)
(***************************************************************************)
\* VM::interpret up to the call of expression(): Compiler::new (with its
\* first advance) and the start of Compiler::compile
StartCompile(env) ==
    /\ parser' = env.parser
    /\ stderr' = env.stderr
    /\ IF env.panicked
       THEN /\ pc' = "panicked"
            /\ compiling_chunk' = NoChunk
            /\ frames' = <<Frame("new", "None", "None")>>
       ELSE /\ pc' = "compiling"
            /\ compiling_chunk' = NewChunk
            /\ frames' = <<Frame("parse_precedence", "Assignment", "None"),
                           Frame("compile", "None", "None")>>

Interpret ==
    /\ pc = "idle"
    /\ input # <<>>
    /\ src' = Head(input)
    /\ input' = Tail(input)
    /\ result' = "None"
    /\ StartCompile(ParserAdvance(Env(NewParser(Head(input)), stderr)))
    /\ UNCHANGED vm

\* parse_precedence up to the call of the prefix function
\* parse_precedence after its first advance
Prefix(env, prefix) ==
    IF env.panicked \/ ~IsSome(env.parser.previous)
    THEN Leave(env, PopFrame)
    ELSE IF prefix = "None"
    THEN Leave(Error(env, "Expected expression"), PopFrame)
    ELSE Leave(env, Call(<<Frame(prefix, "None", "None")>>,
                         [frames[1] EXCEPT !.fn = "parse_precedence_loop"]))

PrefixOf(env) == Prefix(env, ParseRule(env.parser.previous.token_type).prefix)

ParsePrecedence ==
    /\ Running("parse_precedence")
    /\ PrefixOf(ParserAdvance(Env(parser, stderr)))
    /\ UNCHANGED <<input, src, compiling_chunk, vm, result>>

\* One iteration of the loop of parse_precedence
\* The loop of parse_precedence after its advance
Infix(env, infix) ==
    IF env.panicked \/ ~IsSome(env.parser.previous)
    THEN Leave(env, PopFrame)
    ELSE IF infix # "None"
    THEN Leave(env, Call(<<Frame(infix, "None", "None")>>, frames[1]))
    ELSE Leave(env, frames)

InfixOf(env) == Infix(env, ParseRule(env.parser.previous.token_type).infix)

\* The precedence of the current token, None at the end of the input
CurrentPrec(current) ==
    IF IsSome(current) THEN ParseRule(current.token_type).precedence ELSE "None"

ParsePrecedenceLoop ==
    /\ Running("parse_precedence_loop")
    /\ IF PrecOrd(frames[1].precedence) > PrecOrd(CurrentPrec(parser.current))
       THEN Leave(Env(parser, stderr), PopFrame)
       ELSE InfixOf(ParserAdvance(Env(parser, stderr)))
    /\ UNCHANGED <<input, src, compiling_chunk, vm, result>>

\* Compiler::number
Emitted(emitted) ==
    /\ compiling_chunk' = emitted.chunk
    /\ IF emitted.panicked
       THEN pc' = "panicked" /\ frames' = frames
       ELSE pc' = pc /\ frames' = PopFrame

NumberFn ==
    /\ Running("number")
    /\ Emitted(EmitConstant(compiling_chunk, parser,
                            Number(ParseNumber(parser.previous.span))))
    /\ UNCHANGED <<input, src, parser, vm, stderr, result>>

\* Compiler::literal
Literal ==
    /\ Running("literal")
    /\ compiling_chunk' = Emit(compiling_chunk, parser, Op(parser.previous.token_type))
    /\ frames' = PopFrame
    /\ UNCHANGED <<input, pc, src, parser, vm, stderr, result>>

\* Compiler::grouping up to the call of expression()
Grouping ==
    /\ Running("grouping")
    /\ frames' = Call(<<Frame("parse_precedence", "Assignment", "None")>>,
                      Frame("grouping_consume", "None", "None"))
    /\ UNCHANGED <<input, pc, src, parser, compiling_chunk, vm, stderr, result>>

\* Compiler::grouping after expression(): the consume
GroupingConsume ==
    /\ Running("grouping_consume")
    /\ Leave(Consume(Env(parser, stderr), "RightParen",
                     "Expected ')' after expression"), PopFrame)
    /\ UNCHANGED <<input, src, compiling_chunk, vm, result>>

\* A unary that parses its operand at the level of a term
UnaryAtTerm ==
    /\ Running("unary")
    /\ frames' = Call(<<Frame("parse_precedence", "Term", "None")>>,
                      Frame("unary_emit", "None", parser.previous.token_type))
    /\ UNCHANGED <<input, pc, src, parser, compiling_chunk, vm, stderr, result>>

\* Compiler::unary up to the call of parse_precedence
Unary ==
    /\ Running("unary")
    /\ frames' = Call(<<Frame("parse_precedence", "Unary", "None")>>,
                      Frame("unary_emit", "None", parser.previous.token_type))
    /\ UNCHANGED <<input, pc, src, parser, compiling_chunk, vm, stderr, result>>

\* Compiler::unary after parse_precedence: the emit
UnaryEmit ==
    /\ Running("unary_emit")
    /\ compiling_chunk' =
           Emit(compiling_chunk, parser,
                IF frames[1].operator_type = "Bang" THEN Op("Not") ELSE Op("Negate"))
    /\ frames' = PopFrame
    /\ UNCHANGED <<input, pc, src, parser, vm, stderr, result>>

\* Compiler::binary up to the call of parse_precedence
Binary ==
    /\ Running("binary")
    /\ LET operator_type == parser.previous.token_type
           rule == ParseRule(operator_type)
       IN  frames' = Call(<<Frame("parse_precedence", Below(rule.precedence), "None")>>,
                          Frame("binary_emit", "None", operator_type))
    /\ UNCHANGED <<input, pc, src, parser, compiling_chunk, vm, stderr, result>>

\* Compiler::binary after parse_precedence: the emits
BinaryEmit ==
    /\ Running("binary_emit")
    /\ LET ops == BinaryOps(frames[1].operator_type)
           first == Emit(compiling_chunk, parser, ops[1])
       IN  compiling_chunk' =
               IF Len(ops) = 1 THEN first ELSE Emit(first, parser, ops[2])
    /\ frames' = PopFrame
    /\ UNCHANGED <<input, pc, src, parser, vm, stderr, result>>

\* What VM::interpret does with the result of compile: on Ok the chunk and
\* ip = 0 are stored and run() starts (and returns Ok at once on an empty
\* chunk); on Err it returns CompileError
HandOver(had_error, compiled, c, i) ==
    IF had_error
    THEN [chunk |-> c, ip |-> i, pc |-> "idle", result |-> "CompileError"]
    ELSE [chunk |-> compiled, ip |-> 0,
          pc |-> IF Len(compiled.code) = 0 THEN "idle" ELSE "running",
          result |-> IF Len(compiled.code) = 0 THEN "Ok" ELSE "None"]

\* Compiler::compile after expression(), and the rest of VM::interpret up
\* to the loop of run()
\* The end of compile and its return to interpret: env is the parser after
\* the check for a token left over, ended the chunk after end_compiler
Handed(env, ended, out) ==
    /\ parser' = env.parser
    /\ stderr' = env.stderr
    /\ compiling_chunk' = IF env.parser.had_error THEN ended ELSE NoChunk
    /\ chunk' = out.chunk
    /\ ip' = out.ip
    /\ pc' = out.pc
    /\ result' = out.result

EndCompiler(env, ended) ==
    Handed(env, ended, HandOver(env.parser.had_error, ended, chunk, ip))

EndExpression(env) ==
    EndCompiler(env, Emit(compiling_chunk, env.parser, Op("Return")))

\* A compile that does not look at what follows the expression
CompileUnchecked ==
    /\ Running("compile")
    /\ EndExpression(Env(parser, stderr))
    /\ frames' = PopFrame
    /\ UNCHANGED <<input, src, stack>>

Compile ==
    /\ Running("compile")
    /\ EndExpression(IF IsSome(parser.current)
                     THEN ErrorAtCurrent(Env(parser, stderr),
                                         "Expected end of expression")
                     ELSE Env(parser, stderr))
    /\ frames' = PopFrame
    /\ UNCHANGED <<input, src, stack>>

(***************************************************************************)
(* The VM: one action per arm of the loop of VM::run.  The fetch reads     *)
(* code[ip] and increments ip before the arm runs.                         *)
(***************************************************************************)
Fetched(op) ==
    /\ pc = "running"
    /\ chunk.some
    /\ ip < Len(chunk.code)
    /\ chunk.code[ip + 1].op = op

Instruction == chunk.code[ip + 1]

Fetch == Machine(chunk, ip + 1, stack, stderr)

\* What an iteration leaves
Finish(m) ==
    /\ ip' = m.ip
    /\ stack' = m.stack
    /\ stderr' = m.stderr
    /\ pc' = CASE m.outcome = "continue" -> "running"
               [] m.outcome = "panic" -> "panicked"
               [] OTHER -> "idle"
    /\ result' = IF m.outcome \in {"Ok", "RuntimeError"} THEN m.outcome ELSE result
    /\ UNCHANGED <<input, src, parser, compiling_chunk, frames, chunk>>

OpReturn == Fetched("Return") /\ Finish(ExecReturn(Fetch))

OpNegate == Fetched("Negate") /\ Finish(ExecNegate(Fetch))

OpConstant == Fetched("Constant") /\ Finish(ExecConstant(Fetch, Instruction.id))

OpNil == Fetched("Nil") /\ Finish(Push(Fetch, Nil))

OpTrue == Fetched("True") /\ Finish(Push(Fetch, Bool(TRUE)))

OpFalse == Fetched("False") /\ Finish(Push(Fetch, Bool(FALSE)))

OpAdd == Fetched("Add") /\ Finish(BinaryOp(Fetch, "add"))

OpSubstract == Fetched("Substract") /\ Finish(BinaryOp(Fetch, "sub"))

OpMultiply == Fetched("Multiply") /\ Finish(BinaryOp(Fetch, "mul"))

OpDivide == Fetched("Divide") /\ Finish(BinaryOp(Fetch, "div"))

OpNot == Fetched("Not") /\ Finish(ExecNot(Fetch))

OpEqual == Fetched("Equal") /\ Finish(ExecEqual(Fetch))

OpGreater == Fetched("Greater") /\ Finish(ExecCompare(Fetch, "Greater"))

OpLess == Fetched("Less") /\ Finish(ExecCompare(Fetch, "Less"))

(***************************************************************************)
(* The sources                                                             *)
(***************************************************************************)
MaxLexemes == 3

MaxOps == 2

MaxCalls == 2

Lexemes ==
    {<<"1">>, <<"2">>, <<"+">>, <<"-">>, <<"*">>, <<"/">>, <<"(">>, <<")">>,
     <<" ">>, <<"\n">>, <<"!">>, <<"n", "i", "l">>}

RECURSIVE Concatenations(_)
\* The concatenations of at most n lexemes
Concatenations(n) ==
    IF n = 0 THEN {<<>>}
    ELSE LET shorter == Concatenations(n - 1)
         IN  shorter \cup {s \o l : s \in shorter, l \in Lexemes}

ArithDigits == {"0", "2", "3"}

ArithOperators == {"+", "-", "*", "/"}

RECURSIVE ArithSources(_)
\* A digit followed by at most n times an operator and a digit
ArithSources(n) ==
    IF n = 0 THEN {<<d>> : d \in ArithDigits}
    ELSE LET shorter == ArithSources(n - 1)
         IN  shorter \cup
             {s \o <<o, d>> : s \in shorter, o \in ArithOperators, d \in ArithDigits}

\* s repeated n times
Repeat(s, n) == [i \in 1..(n * Len(s)) |-> s[((i - 1) % Len(s)) + 1]]

\* 1+1+...+1 with one literal more than an u8 can number
TooManyLiterals == Repeat(<<"1", "+">>, U8Max + 1) \o <<"1">>

\* As many number literals as the constant pool holds
MostLiterals == Repeat(<<"1", "+">>, U8Max) \o <<"1">>

Scenarios ==
    {<<"1", " ", "+", " ", "2">>,
     <<"(", "-", "1", " ", "+", " ", "2", ")", " ", "*", " ", "3", " ", "-",
       " ", "-", "4">>,
     <<"!", "(", "5", " ", "-", " ", "4", " ", ">", " ", "3", " ", "*", " ",
       "2", " ", "=", "=", " ", "!", "n", "i", "l", ")">>,
     <<"-", "t", "r", "u", "e", "\n">>,
     <<"-", "t", "r", "u", "e">>,
     <<"1", " ", "+">>,
     <<"1", " ", "-", " ", "-", "n", "i", "l", "\n">>,
     <<"\"", "a", "b", "c", "\n">>,
     <<"\"", "a", "b", "c">>,
     <<"\"", "a", "\n", "b", "\"", " ", "+", " ", "1">>,
     <<"/", "/", " ", "c", "\n", " ", "\t", "\r", "\n", "/", "/">>,
     <<"-", "n", "i", "l", "\n", "+", "1">>,
     <<"1", "\n", "+", "\n", "n", "i", "l", "\n", "*", "2">>,
     <<"n", "i", "l", " ", "+", "\n", "1", "-", "2">>,
     <<"f", "a", "l", "s", "e", "<", "1">>,
     <<"1", ".", "5", "+", "2", ".", "2", "5">>,
     <<"1", "2", "/", "8", "*", "3">>,
     <<"1", "<", "2", "=", "=", "2", ">", "=", "1">>,
     <<"1", "!", "=", "2", "\n">>,
     <<"1", "<", "=", "n", "i", "l", " ">>,
     <<"1", "@", "x">>,
     <<"1", "+", "@", "2">>,
     <<"@", " ", "@", "1", " ", ")">>,
     <<"U+00E9", "1">>,
     <<"(", "1", "+", "2", "\n", "3">>,
     <<"x", "y", " ", "1">>,
     MostLiterals,
     TooManyLiterals}

\* The operands and operators of the comparisons; 0/0 is a NaN
CompareOperands ==
    {<<"1">>, <<"2">>, <<"0", "/", "0">>, <<"n", "i", "l", " ">>,
     <<"f", "a", "l", "s", "e", " ">>}

BaseOperators == {<<"=", "=">>, <<"<">>, <<">">>}

NegatedOperators == {<<"!", "=">>, <<">", "=">>, <<"<", "=">>}

\* a op b for every operator, and !(a op b) for the base operators
CompareSources ==
    {a \o o \o b : a \in CompareOperands, b \in CompareOperands,
                   o \in BaseOperators \cup NegatedOperators}
    \cup {<<"!", "(">> \o a \o o \o b \o <<")">> :
             a \in CompareOperands, b \in CompareOperands, o \in BaseOperators}

\* -a o -b
NegatedPair(a, o, b) == <<"-", a, " ", o, " ", "-", b>>

\* (a o1 b) o2 c
Grouped(a, o1, b, o2, c) == <<"(", a, o1, b, ")", o2, c>>

UnarySources ==
    {NegatedPair(a, o, b) : a \in ArithDigits, o \in ArithOperators,
                            b \in ArithDigits}

GroupSources ==
    {Grouped(a, o1, b, o2, c) :
        a \in ArithDigits, o1 \in ArithOperators, b \in ArithDigits,
        o2 \in ArithOperators, c \in ArithDigits}

Sources ==
    Concatenations(MaxLexemes) \cup ArithSources(MaxOps) \cup CompareSources
        \cup UnarySources \cup GroupSources \cup Scenarios

\* The lines typed at the prompt
PromptLines ==
    {<<"1", "+", "2", "\n">>,
     <<"-", "n", "i", "l", "\n">>,
     <<"2", "*", "n", "i", "l", "\n">>,
     <<"(", "1", "\n">>,
     <<"1", "@", "\n">>,
     <<"t", "r", "u", "e", "\n">>}

RECURSIVE Sessions(_)
\* The sequences of at least one and at most n prompt lines
Sessions(n) ==
    IF n = 1 THEN {<<l>> : l \in PromptLines}
    ELSE LET shorter == Sessions(n - 1)
         IN  shorter \cup {s \o <<l>> : s \in shorter, l \in PromptLines}

Init ==
    /\ input \in {<<s>> : s \in Sources} \cup Sessions(MaxCalls)
    /\ pc = "idle"
    /\ src = <<>>
    /\ parser = NewParser(<<>>)
    /\ compiling_chunk = NoChunk
    /\ frames = <<>>
    /\ chunk = NoChunk
    /\ ip = 0
    /\ stack = <<>>
    /\ stderr = <<>>
    /\ result = "None"

Next ==
    \/ Interpret
    \/ ParsePrecedence
    \/ ParsePrecedenceLoop
    \/ NumberFn
    \/ Literal
    \/ Grouping
    \/ GroupingConsume
    \/ Unary
    \/ UnaryEmit
    \/ Binary
    \/ BinaryEmit
    \/ Compile
    \/ OpReturn
    \/ OpNegate
    \/ OpConstant
    \/ OpNil
    \/ OpTrue
    \/ OpFalse
    \/ OpAdd
    \/ OpSubstract
    \/ OpMultiply
    \/ OpDivide
    \/ OpNot
    \/ OpEqual
    \/ OpGreater
    \/ OpLess

Spec == Init /\ [][Next]_vars

\* The fetch never indexes code out of range: run() has no arm for it
FetchInRange == pc = "running" => chunk.some /\ ip < Len(chunk.code)

(***************************************************************************)
(* The reference the claims are stated against: the tokens of a source,    *)
(* and the value of an expression by the grammar                           *)
(*   equality   -> comparison (("!=" | "==") comparison)*                  *)
(*   comparison -> term ((">" | ">=" | "<" | "<=") term)*                  *)
(*   term       -> factor (("+" | "-") factor)*                            *)
(*   factor     -> unary (("*" | "/") unary)*                              *)
(*   unary      -> ("!" | "-") unary | primary                             *)
(*   primary    -> NUMBER | "true" | "false" | "nil" | "(" equality ")"    *)
(* with every binary operator grouping left to right.                      *)
(***************************************************************************)
BadToken == Token("Bad", <<>>, 0)

\* The tokens are collected in runs that double in length, which keeps the
\* evaluation of a long source shallow
TokenRun(toks, source, line, done) ==
    [toks |-> toks, source |-> source, line |-> line, done |-> done]

\* One scan_token call
ScanOne(r) ==
    CASE r.kind = "tok" -> TokenRun(<<r.tok>>, r.source, r.line, FALSE)
      [] r.kind = "eof" -> TokenRun(<<>>, r.source, r.line, TRUE)
      [] OTHER -> TokenRun(<<BadToken>>, r.source, r.line, TRUE)

ScanJoined(first, rest) == [rest EXCEPT !.toks = first.toks \o @]

RECURSIVE ScanRun(_, _, _)
RECURSIVE ScanRest(_, _)
ScanRest(first, k) ==
    IF first.done THEN first
    ELSE ScanJoined(first, ScanRun(first.source, first.line, k))

\* At most 2^k scan_token calls
ScanRun(source, line, k) ==
    IF k = 0 THEN ScanOne(ScanToken(source, line))
    ELSE ScanRest(ScanRun(source, line, k - 1), k - 1)

\* The tokens after a run, in runs of 2^k, 2^(k+1), ... calls
RECURSIVE TokensAfter(_, _)
TokensAfter(run, k) ==
    IF run.done THEN run.toks
    ELSE run.toks \o TokensAfter(ScanRun(run.source, run.line, k), k + 1)

TokensFrom(source, line) == TokensAfter(TokenRun(<<>>, source, line, FALSE), 0)

\* The tokens of a source, ending in BadToken when the scanner fails on it
Tokens(s) == TokensFrom(s, 1)

AllScanned(toks) == toks = <<>> \/ toks[Len(toks)].token_type # "Bad"

TypeError == [tag |-> "TypeError", b |-> FALSE, num |-> Num(1, 0, 1)]

RefUnaryValue(op, v) ==
    IF v = TypeError THEN TypeError
    ELSE IF op = "Bang" THEN ValueNot(v)
    ELSE IF IsNumber(v) THEN ValueNeg(v)
    ELSE TypeError

\* a != b is !(a == b), a >= b is !(a < b) and a <= b is !(a > b); the
\* orderings are defined between two numbers only
RefBinaryValue(op, a, b) ==
    IF a = TypeError \/ b = TypeError THEN TypeError
    ELSE IF op = "EqualEqual" THEN Bool(ValueEq(a, b))
    ELSE IF op = "BangEqual" THEN ValueNot(Bool(ValueEq(a, b)))
    ELSE IF ~(IsNumber(a) /\ IsNumber(b)) THEN TypeError
    ELSE CASE op = "Plus" -> ValueAdd(a, b)
           [] op = "Minus" -> ValueSub(a, b)
           [] op = "Star" -> ValueMul(a, b)
           [] op = "Slash" -> ValueDiv(a, b)
           [] op = "Less" -> Bool(NumLess(a.num, b.num))
           [] op = "Greater" -> Bool(NumLess(b.num, a.num))
           [] op = "LessEqual" -> ValueNot(Bool(NumLess(b.num, a.num)))
           [] op = "GreaterEqual" -> ValueNot(Bool(NumLess(a.num, b.num)))

\* A parse that failed (at_end: an operand was expected where the tokens
\* end) or gave the value v and left the tokens rest
RefFail(at_end) == [ok |-> FALSE, at_end |-> at_end, v |-> Nil, rest |-> <<>>]

RefOk(v, rest) == [ok |-> TRUE, at_end |-> FALSE, v |-> v, rest |-> rest]

LevelOperators(level) ==
    CASE level = 1 -> {"BangEqual", "EqualEqual"}
      [] level = 2 -> {"Greater", "GreaterEqual", "Less", "LessEqual"}
      [] level = 3 -> {"Plus", "Minus"}
      [] level = 4 -> {"Star", "Slash"}

RECURSIVE RefLevel(_, _)
RECURSIVE RefTail(_, _)
RECURSIVE RefTailRun(_, _, _)
RECURSIVE RefUnary(_)

RefApplied(op, r) == IF r.ok THEN RefOk(RefUnaryValue(op, r.v), r.rest) ELSE r

RefClosed(r) ==
    IF ~r.ok THEN r
    ELSE IF r.rest # <<>> /\ r.rest[1].token_type = "RightParen"
    THEN RefOk(r.v, Tail(r.rest))
    ELSE RefFail(FALSE)

RefUnary(toks) ==
    IF toks = <<>> THEN RefFail(TRUE)
    ELSE CASE toks[1].token_type \in {"Minus", "Bang"} ->
                 RefApplied(toks[1].token_type, RefUnary(Tail(toks)))
           [] toks[1].token_type = "Number" ->
                 RefOk(Number(ParseNumber(toks[1].span)), Tail(toks))
           [] toks[1].token_type = "True" -> RefOk(Bool(TRUE), Tail(toks))
           [] toks[1].token_type = "False" -> RefOk(Bool(FALSE), Tail(toks))
           [] toks[1].token_type = "Nil" -> RefOk(Nil, Tail(toks))
           [] toks[1].token_type = "LeftParen" -> RefClosed(RefLevel(Tail(toks), 1))
           [] OTHER -> RefFail(FALSE)

RefCombined(left, right) ==
    IF ~right.ok THEN right
    ELSE RefOk(RefBinaryValue(left.rest[1].token_type, left.v, right.v), right.rest)

\* No operator of the level follows the operand parsed so far
RefTailEnds(left, level) ==
    \/ ~left.ok
    \/ left.rest = <<>>
    \/ left.rest[1].token_type \notin LevelOperators(level)

\* At most 2^k operators of the level and their right operands
RefTailRun(left, level, k) ==
    IF RefTailEnds(left, level) THEN left
    ELSE IF k = 0
    THEN RefCombined(left, RefLevel(Tail(left.rest), level + 1))
    ELSE RefTailRun(RefTailRun(left, level, k - 1), level, k - 1)

\* The operators of the level, in runs of 2^k, 2^(k+1), ... operators
RECURSIVE RefTailAfter(_, _, _)
RefTailAfter(left, level, k) ==
    IF RefTailEnds(left, level) THEN left
    ELSE RefTailAfter(RefTailRun(left, level, k), level, k + 1)

RefTail(left, level) == RefTailAfter(left, level, 0)

RefLevel(toks, level) ==
    IF level > 4 THEN RefUnary(toks)
    ELSE RefTail(RefLevel(toks, level + 1), level)

RefWhole(r) == IF r.ok /\ r.rest # <<>> THEN RefFail(FALSE) ELSE r

\* The parse of a whole token sequence as one expression
RefProgram(toks) == RefWhole(RefLevel(toks, 1))

IsWellTyped(toks) ==
    AllScanned(toks) /\ RefProgram(toks).ok /\ RefProgram(toks).v # TypeError

\* The source is an expression whose evaluation meets no type error
WellTyped(s) == IsWellTyped(Tokens(s))

IsArithmetic(toks) ==
    /\ Len(toks) % 2 = 1
    /\ \A i \in 1..Len(toks) :
          IF i % 2 = 1 THEN toks[i].token_type = "Number"
          ELSE toks[i].token_type \in {"Plus", "Minus", "Star", "Slash"}

\* The source is number literals with one of + - * / between each two
Arithmetic(s) == IsArithmetic(Tokens(s))

LiteralCount(toks) == (Len(toks) + 1) \div 2

EndsWhereOperandExpected(toks) ==
    /\ toks # <<>>
    /\ AllScanned(toks)
    /\ ~RefProgram(toks).ok
    /\ RefProgram(toks).at_end

\* An interpret call has begun; src is the source of the latest one
Called == pc # "idle" \/ result # "None"

\* The latest interpret call has ended: it returned or the process panicked
Ended == Called /\ pc \in {"idle", "panicked"}

LastLine == stderr[Len(stderr)]

\* The last line written is the compile error `msg` reported at end
ReportedAtEnd(msg) ==
    /\ stderr # <<>>
    /\ LastLine.kind = "error" /\ LastLine.at_end /\ LastLine.msg = msg

(***************************************************************************)
(* The claims                                                              *)
(***************************************************************************)
\* C1: for a source that compile accepts and that is a well-typed
\* expression, the stack holds exactly one value when the VM is at the
\* Return; the Return pops it and prints it, the stack is then empty and
\* interpret returns Ok.
C1_ReturnPopsTheOnlyValue ==
    [][(Fetched("Return") /\ WellTyped(src)) =>
          /\ Len(stack) = 1
          /\ stack' = <<>>
          /\ stderr' = Append(stderr, ValueLine(stack[1]))
          /\ result' = "Ok"
          /\ pc' = "idle"]_vars

C1_Witness ==
    /\ pc = "idle" /\ result = "Ok" /\ stack = <<>>
    /\ Len(chunk.code) > 3
    /\ stderr # <<>> /\ LastLine.kind = "value"
    /\ WellTyped(src)

\* C2 (as claimed): when the tokens end where an operand is expected, the
\* compiler reports "Expected expression" at end, interpret returns
\* CompileError (exit code 65) and the chunk is never run.
C2_ExpectedExpressionAtEnd ==
    (Called /\ pc # "compiling" /\ EndsWhereOperandExpected(Tokens(src))) =>
        /\ pc = "idle"
        /\ result = "CompileError"
        /\ ExitCode(result) = 65
        /\ ReportedAtEnd("Expected expression")

\* C3 (as claimed): a source of whitespace and line comments only, the
\* empty source included, is a compile error "Expected expression" and the
\* VM does not run.
C3_BlankSourceExpectedExpression ==
    (Called /\ pc # "compiling" /\ Tokens(src) = <<>>) =>
        /\ pc = "idle"
        /\ result = "CompileError"
        /\ ReportedAtEnd("Expected expression")

\* The value printed for an arithmetic source is the value of the
\* expression by the grammar
ArithmeticValuePrinted ==
    /\ pc = "idle"
    /\ result = "Ok"
    /\ stderr # <<>>
    /\ LastLine = ValueLine(RefProgram(Tokens(src)).v)

C5_CodeAndLinesSameLength ==
    /\ Len(compiling_chunk.code) = Len(compiling_chunk.lines)
    /\ Len(chunk.code) = Len(chunk.lines)

C5_Witness ==
    /\ pc = "compiling"
    /\ Len(compiling_chunk.code) >= 3
    /\ Len(compiling_chunk.constants) >= 2
    /\ Len(compiling_chunk.lines) = Len(compiling_chunk.code)
    /\ chunk.some /\ Len(chunk.code) >= 3 /\ Len(chunk.lines) = Len(chunk.code)

ConstantInstructions(code) == SelectSeq(code, LAMBDA c : c.op = "Constant")

NumberTokens(toks) == SelectSeq(toks, LAMBDA tok : tok.token_type = "Number")

\* Every Constant(id) of `code`, in order, has a valid id whose pool entry
\* is the value of the number literal of the same rank in `literals`
ConstantsAreLiterals(instructions, constants, literals) ==
    \A i \in 1..Len(instructions) :
        /\ instructions[i].id >= 0
        /\ instructions[i].id < Len(constants)
        /\ i <= Len(literals)
        /\ constants[instructions[i].id + 1] = Number(ParseNumber(literals[i].span))

\* C6: in every chunk compile returns, the id of every Constant(id) is a
\* valid index into the chunk's constant pool and constants[id] is the
\* value of the literal that produced the instruction.
C6_ConstantOperandsValid ==
    pc = "running" =>
        ConstantsAreLiterals(ConstantInstructions(chunk.code), chunk.constants,
                             NumberTokens(Tokens(src)))

C6_Witness ==
    /\ pc = "running"
    /\ Len(chunk.constants) >= 3
    /\ Len(ConstantInstructions(chunk.code)) = Len(chunk.constants)
    /\ chunk.constants[1] # chunk.constants[2]
    /\ ConstantsAreLiterals(ConstantInstructions(chunk.code), chunk.constants,
                            NumberTokens(Tokens(src)))

\* The two lines of a runtime error raised by the instruction fetched
RuntimeErrorLines(message) ==
    <<MessageLine(message), InScriptLine(chunk.lines[ip + 1])>>

\* C7: when Negate executes on a top of stack that is not a Number, the VM
\* reports "Operand must be a number", clears the whole stack, stops and
\* run returns RuntimeError; the operand is not negated.
C7_NegateNonNumber ==
    [][(Fetched("Negate") /\ stack # <<>> /\ ~IsNumber(stack[Len(stack)])) =>
          /\ stderr' = stderr \o RuntimeErrorLines("Operand must be a number")
          /\ stack' = <<>>
          /\ result' = "RuntimeError"
          /\ pc' = "idle"
          /\ chunk' = chunk /\ ip' = ip + 1]_vars

C7_Witness ==
    /\ pc = "idle" /\ result = "RuntimeError" /\ stack = <<>>
    /\ chunk.some /\ ip >= 3
    /\ chunk.code[ip].op = "Negate"
    /\ chunk.code[ip - 1].op = "Nil"
    /\ chunk.code[ip - 2].op = "Constant"
    /\ Len(stderr) >= 2
    /\ stderr[Len(stderr) - 1] = MessageLine("Operand must be a number")

ArithmeticFetched ==
    Fetched("Add") \/ Fetched("Substract") \/ Fetched("Multiply") \/ Fetched("Divide")

\* C8 (as claimed): when Add, Substract, Multiply or Divide executes and
\* one of the top two values is not a Number, the VM reports exactly
\* "Operands must be numbers", clears the whole stack and run returns
\* RuntimeError.
C8_ArithmeticOperandsMessage ==
    [][(/\ ArithmeticFetched
        /\ Len(stack) >= 2
        /\ ~(IsNumber(stack[Len(stack)]) /\ IsNumber(stack[Len(stack) - 1]))) =>
          /\ stderr' = stderr \o RuntimeErrorLines("Operands must be numbers")
          /\ stack' = <<>>
          /\ result' = "RuntimeError"
          /\ pc' = "idle"]_vars

\* C9: whenever a runtime error is reported, the line printed in
\* "[line L] in script" is lines[ip - 1] for the ip the fetch left, the
\* line recorded for the instruction that raised the error: ip is
\* incremented before the instruction is dispatched.
C9_RuntimeErrorLine ==
    [][(pc = "running" /\ result' = "RuntimeError") =>
          /\ ip' = ip + 1
          /\ chunk' = chunk
          /\ Len(stderr') = Len(stderr) + 2
          /\ stderr'[Len(stderr')] = InScriptLine(chunk.lines[ip'])
          /\ stderr'[Len(stderr')].line = chunk.lines[ip + 1]]_vars

C9_Witness ==
    /\ pc = "idle" /\ result = "RuntimeError"
    /\ chunk.some /\ ip >= 1 /\ ip < Len(chunk.code)
    /\ chunk.lines[ip + 1] # chunk.lines[ip]
    /\ stderr # <<>>
    /\ LastLine = InScriptLine(chunk.lines[ip])

\* C10 (as claimed): when compile reports an error, interpret returns
\* CompileError and no chunk is handed to the VM: the VM's chunk, ip and
\* stack stay what they were before the call.
C10_CompileErrorLeavesVM ==
    [][/\ pc' = "compiling" => vm' = vm
       /\ (pc = "compiling" /\ parser'.had_error) =>
             /\ vm' = vm
             /\ pc' \in {"compiling", "idle"}
             /\ pc' = "idle" => result' = "CompileError"]_vars

\* A step of a compile: of Compiler::new, made by interpret, or of compile
CompileStep == pc = "compiling" \/ (pc = "idle" /\ pc' # "idle")

\* panic_mode as the step finds it: a compile starts on a new parser
PanicModeBefore == pc = "compiling" /\ parser.panic_mode

\* C11: within one compile the first error sets both had_error and
\* panic_mode, neither flag is reset, and every later report is
\* suppressed: a compile writes at most one error message.
C11_OneErrorPerCompile ==
    [][CompileStep =>
          /\ parser'.had_error = parser'.panic_mode
          /\ PanicModeBefore => (parser'.panic_mode /\ stderr' = stderr)
          /\ (~PanicModeBefore /\ parser'.panic_mode) =>
                /\ Len(stderr') = Len(stderr) + 1
                /\ stderr'[Len(stderr')].kind = "error"
                /\ SubSeq(stderr', 1, Len(stderr)) = stderr
          /\ ~parser'.panic_mode => stderr' = stderr]_vars

\* Two characters that start no token and a token left over: three errors
C11_Witness ==
    /\ pc = "idle" /\ result = "CompileError"
    /\ Cardinality({i \in DOMAIN src : src[i] = "@"}) >= 2
    /\ src[Len(src)] = ")"
    /\ parser.had_error /\ parser.panic_mode
    /\ Len(stderr) = 1
    /\ stderr[1].msg = "Unexpected character"

EqualityAndComparison ==
    {"BangEqual", "EqualEqual", "Greater", "GreaterEqual", "Less", "LessEqual"}

\* The base operator of a negated operator
BaseOf(token_type) ==
    CASE token_type = "BangEqual" -> "Equal"
      [] token_type = "GreaterEqual" -> "Less"
      [] token_type = "LessEqual" -> "Greater"

HasTokenIn(toks, types) == \E i \in DOMAIN toks : toks[i].token_type \in types

\* The one equality or comparison operator of an expression without
\* parentheses: every other operator binds tighter, it is applied last
OnlyComparison(toks) ==
    CHOOSE i \in DOMAIN toks : toks[i].token_type \in EqualityAndComparison

EndsInNegated(toks) ==
    /\ RefProgram(toks).ok
    /\ ~HasTokenIn(toks, {"LeftParen"})
    /\ Cardinality({i \in DOMAIN toks :
                       toks[i].token_type \in EqualityAndComparison}) = 1
    /\ HasTokenIn(toks, {"BangEqual", "GreaterEqual", "LessEqual"})

\* The last instructions of the chunk are the base operator, Not and Return
NegatedCode(code, token_type) ==
    /\ Len(code) >= 5
    /\ SubSeq(code, Len(code) - 2, Len(code)) =
          <<Op(BaseOf(token_type)), Op("Not"), Op("Return")>>

\* What interpret does is what the grammar says of the expression: its
\* value is printed, or it has a type error and the run ends in RuntimeError
OutcomeIs(v) ==
    /\ pc = "idle"
    /\ stack = <<>>
    /\ IF v = TypeError THEN result = "RuntimeError"
       ELSE result = "Ok" /\ stderr # <<>> /\ LastLine = ValueLine(v)

\* C12: != is compiled as Equal, Not; >= as Less, Not; <= as Greater, Not;
\* so a != b yields what !(a == b) yields, and a >= b yields what
\* !(a < b) yields for two numbers and a runtime error on both paths
\* otherwise.
C12_NegatedComparisons ==
    /\ (pc = "running" /\ EndsInNegated(Tokens(src))) =>
          NegatedCode(chunk.code,
                      Tokens(src)[OnlyComparison(Tokens(src))].token_type)
    /\ (/\ Ended
        /\ HasTokenIn(Tokens(src), EqualityAndComparison \cup {"Bang"})
        /\ RefProgram(Tokens(src)).ok) =>
          OutcomeIs(RefProgram(Tokens(src)).v)

\* 0/0 >= n and n >= 0/0 print true, as !(0/0 < n) and !(n < 0/0) do
C12_Witness ==
    /\ pc = "idle" /\ result = "Ok"
    /\ HasTokenIn(Tokens(src), {"GreaterEqual"})
    /\ HasTokenIn(Tokens(src), {"Slash"})
    /\ NegatedCode(chunk.code, "GreaterEqual")
    /\ LastLine = ValueLine(Bool(TRUE))
    /\ OutcomeIs(RefProgram(Tokens(src)).v)

\* C13: during compilation the constant pool never holds more than 256
\* values, and compiling a source of 257 number literals ends in a clean
\* compile error: interpret returns CompileError after an error message,
\* and the process does not abort.
C13_PoolAtMost256 ==
    /\ Len(compiling_chunk.constants) <= U8Max + 1
    /\ (Ended /\ src = TooManyLiterals) =>
          /\ pc = "idle"
          /\ result = "CompileError"
          /\ stderr # <<>> /\ LastLine.kind = "error"

\* The line of the character of s after the first `offset` ones
LineAt(s, offset) == 1 + Cardinality({i \in 1..offset : s[i] = "\n"})

\* Where the span of the token scanned last starts in src: the scanner
\* holds what follows the span
SpanStart(scanner, tok) == Len(src) - Len(scanner.source) - Len(tok.span)

\* C14: every token scan_token returns carries the line of the first
\* character of its span, a string literal that contains newlines included.
C14_TokenLineIsStartLine ==
    (pc = "compiling" /\ IsSome(parser.current)) =>
        parser.current.line =
            LineAt(src, SpanStart(parser.scanner, parser.current))

\* The number a digit stands for
Digit(d) == Number(ParseNumber(<<d>>))

\* a o b for the numbers a and b
ArithValue(o, a, b) ==
    CASE o = "+" -> ValueAdd(a, b)
      [] o = "-" -> ValueSub(a, b)
      [] o = "*" -> ValueMul(a, b)
      [] o = "/" -> ValueDiv(a, b)

SevenScenario ==
    <<"(", "-", "1", " ", "+", " ", "2", ")", " ", "*", " ", "3", " ", "-",
      " ", "-", "4">>

\* C15: a unary operator binds tighter than every binary operator and a
\* parenthesised group is one operand: -a o -b prints (-a) o (-b),
\* (a o1 b) o2 c prints (a o1 b) o2 c, and (-1 + 2) * 3 - -4 prints 7.
C15_UnaryAndGrouping ==
    Ended =>
        /\ \A a \in ArithDigits, o \in ArithOperators, b \in ArithDigits :
              src = NegatedPair(a, o, b) =>
                  OutcomeIs(ArithValue(o, ValueNeg(Digit(a)), ValueNeg(Digit(b))))
        /\ \A a \in ArithDigits, o1 \in ArithOperators, b \in ArithDigits,
              o2 \in ArithOperators, c \in ArithDigits :
              src = Grouped(a, o1, b, o2, c) =>
                  OutcomeIs(ArithValue(o2, ArithValue(o1, Digit(a), Digit(b)),
                                       Digit(c)))
        /\ src = SevenScenario => OutcomeIs(Number(Num(1, 7, 1)))

C15_Witness ==
    /\ pc = "idle" /\ result = "Ok"
    /\ src = SevenScenario
    /\ stack = <<>>
    /\ LastLine = ValueLine(Number(Num(1, 7, 1)))

\* The characters a token, a string or a comment starts with
StartsToken(c) ==
    \/ IsAsciiAlphanumeric(c) \/ c = "_" \/ c = "\""
    \/ c \in {"(", ")", "{", "}", ";", ",", ".", "-", "+", "/", "*", "!", "=",
              "<", ">"}

\* scan_token on `source`, whose first character after the white space
\* starts no token, returns the error and leaves what follows the character
UnexpectedCharacter(source, skipped) ==
    (skipped.source # <<>> /\ ~StartsToken(skipped.source[1])) =>
        ScanToken(source, 1) =
            ScanOut("err", None, "Unexpected character",
                    DropFirst(skipped.source, 1), skipped.line)

\* C16: for every character that starts no token, one of several bytes
\* included, scan_token returns the error "Unexpected character" and leaves
\* the scanner one code point further; checked at every position of the
\* source the compiler scans.
C16_UnexpectedCharacter ==
    Called =>
        \A i \in 0..Len(src) :
            UnexpectedCharacter(DropFirst(src, i),
                                SkipWhitespace(DropFirst(src, i), 1))

IdentifierChar(c) == IsAsciiAlphanumeric(c) \/ c = "_"

\* The length of the longest run of identifier characters s starts with
IdentifierRun(s) ==
    CHOOSE n \in 0..Len(s) :
        /\ \A j \in 1..n : IdentifierChar(s[j])
        /\ n = Len(s) \/ ~IdentifierChar(s[n + 1])

\* The reserved words and their token kinds
Reserved ==
    {<<<<"a", "n", "d">>, "And">>, <<<<"c", "l", "a", "s", "s">>, "Class">>,
     <<<<"e", "l", "s", "e">>, "Else">>, <<<<"f", "a", "l", "s", "e">>, "False">>,
     <<<<"f", "o", "r">>, "For">>, <<<<"f", "u", "n">>, "Fun">>,
     <<<<"i", "f">>, "If">>, <<<<"n", "i", "l">>, "Nil">>,
     <<<<"o", "r">>, "Or">>, <<<<"p", "r", "i", "n", "t">>, "Print">>,
     <<<<"r", "e", "t", "u", "r", "n">>, "Return">>,
     <<<<"s", "u", "p", "e", "r">>, "Super">>, <<<<"t", "h", "i", "s">>, "This">>,
     <<<<"t", "r", "u", "e">>, "True">>, <<<<"v", "a", "r">>, "Var">>,
     <<<<"w", "h", "i", "l", "e">>, "While">>}

WordKind(span) ==
    IF \E r \in Reserved : r[1] = span
    THEN (CHOOSE r \in Reserved : r[1] = span)[2]
    ELSE "Identifier"

\* scan_token on s, which starts with a letter or `_`, returns the longest
\* run of identifier characters as a token of the kind of that word
ScansWord(s, n) ==
    ScanToken(s, 1) =
        ScanOut("tok", Token(WordKind(SubSeq(s, 1, n)), SubSeq(s, 1, n), 1), "",
                DropFirst(s, n), 1)

\* C17: where the source goes on with `_` or an ASCII letter, scan_token
\* returns a token whose span is the maximal run of [A-Za-z0-9_], also when
\* the run extends to the end of the input, and whose kind is the reserved
\* word equal to the span, Identifier when there is none; checked at every
\* position of the source the compiler scans.
C17_IdentifierToken ==
    Called =>
        \A i \in 1..Len(src) :
            (src[i] \in Letters \/ src[i] = "_") =>
                ScansWord(DropFirst(src, i - 1),
                          IdentifierRun(DropFirst(src, i - 1)))

ScannerMessages == {"Unexpected character", "Unterminated string"}

\* Nothing but white space and comments is left of the input
Exhausted(source) == SkipWhitespace(source, 1).source = <<>>

\* What is left of the input when the error `line` is reported by a step
\* that starts with the scanner at `source`: a scanner error is reported
\* by the scan_token call that returned it, any other error with the
\* scanner where the step found it
LeftAtReport(line, source, first) ==
    IF line.msg \in ScannerMessages /\ first.kind = "err" THEN first.source
    ELSE source

ReportedWithInputLeft(line, source) ==
    /\ line.kind = "error"
    /\ line.at_end
    /\ ~Exhausted(LeftAtReport(line, source, ScanToken(source, 1)))

\* C18: an error is reported as `Error at end` only when the input is
\* exhausted; a scanner error raised while input remains is reported at a
\* token, as `Error at '<span>'`.
C18_AtEndOnlyWhenExhausted ==
    [][Len(stderr') = Len(stderr) + 1 =>
          ~ReportedWithInputLeft(stderr'[Len(stderr')],
                                 IF pc = "idle" THEN src'
                                 ELSE parser.scanner.source)]_vars

\* The tokens that follow the expression the tokens start with
RestAfterExpression(toks) == RefLevel(toks, 1).rest

\* The tokens start with an expression and a token follows it
TokenRemains(toks) ==
    /\ RefLevel(toks, 1).ok
    /\ RestAfterExpression(toks) # <<>>
    /\ RestAfterExpression(toks)[1] # BadToken

ExpectedEnd(tok) ==
    ErrorLine(tok.line, FALSE, tok.span, "Expected end of expression")

\* C19: when the top-level expression has been parsed and a token remains
\* unconsumed, the compiler reports "Expected end of expression" at that
\* token, unless an earlier error set panic mode, and compile fails:
\* interpret returns CompileError.
C19_ExpectedEndOfExpression ==
    [][Running("compile") =>
          /\ (~parser.had_error /\ TokenRemains(Tokens(src))) =>
                parser.current = RestAfterExpression(Tokens(src))[1]
          /\ IsSome(parser.current) =>
                /\ pc' = "idle"
                /\ result' = "CompileError"
                /\ stderr' = IF parser.panic_mode THEN stderr
                             ELSE Append(stderr, ExpectedEnd(parser.current))]_vars

C19_Witness ==
    /\ pc = "idle" /\ result = "CompileError"
    /\ TokenRemains(Tokens(src))
    /\ stderr # <<>>
    /\ LastLine = ExpectedEnd(RestAfterExpression(Tokens(src))[1])
    /\ parser.had_error

\* The only Return of the code is its last instruction
ReturnIsLast(code) ==
    /\ code # <<>>
    /\ \A i \in DOMAIN code : code[i].op = "Return" <=> i = Len(code)

\* The iteration of run() that executes the instruction at ip
RunStep ==
    /\ ip' = ip + 1
    /\ ip' <= Len(chunk.code)
    /\ chunk' = chunk
    /\ ReturnIsLast(chunk.code)
    /\ \/ pc' = "running" /\ result' = result /\ ip' < Len(chunk.code)
       \/ pc' = "idle" /\ result' = "Ok" /\ ip' = Len(chunk.code)
       \/ pc' = "idle" /\ result' = "RuntimeError" /\ ip' < Len(chunk.code)

\* C20: every run of a compiled chunk terminates: each executed
\* instruction increases ip by exactly one, ip never exceeds the length of
\* code, the only Return of the chunk is its last instruction, and run ends
\* at that Return with Ok or earlier with RuntimeError.
C20_RunTerminates == [][pc = "running" => RunStep]_vars

\* The number of values an instruction reads from the stack
ValuesRead(op) ==
    CASE op \in {"Return", "Negate", "Not"} -> 1
      [] op \in {"Add", "Substract", "Multiply", "Divide", "Equal", "Greater",
                 "Less"} -> 2
      [] OTHER -> 0

\* C21: when compile returned a chunk, executing it never pops or peeks a
\* value that is not on the stack: at each instruction the stack holds at
\* least as many values as the instruction reads.
C21_StackHoldsWhatIsRead ==
    (pc = "running" /\ ip < Len(chunk.code)) =>
        Len(stack) >= ValuesRead(chunk.code[ip + 1].op)

\* An interpret call has returned
Returned == pc = "idle" /\ result \in {"Ok", "CompileError", "RuntimeError"}

\* C22: over any sequence of interpret calls on one VM the value stack is
\* empty whenever a call returns, with Ok, CompileError or RuntimeError, so
\* every program starts on an empty stack.
C22_StackEmptyBetweenCalls ==
    /\ Returned => stack = <<>>
    /\ (pc = "idle" /\ input # <<>>) => stack = <<>>

\* The second line of a session returned after the first one ended in a
\* runtime error that found two values on the stack
C22_Witness ==
    /\ Returned
    /\ input = <<>>
    /\ result \in {"Ok", "CompileError"}
    /\ \E i \in DOMAIN stderr : stderr[i] = MessageLine("Opernds must be numbers")
    /\ src \in PromptLines
    /\ src # <<"2", "*", "n", "i", "l", "\n">>
    /\ stack = <<>>

\* The number of characters of src the scanner has consumed
Consumed(scanner) == Len(src) - Len(scanner.source)

\* C23: after any sequence of scan_token calls, those that returned
\* "Unterminated string" or "Unexpected character" included, the line
\* counter of the scanner is 1 plus the number of newlines in the part of
\* the source consumed so far.
C23_LineCountsConsumedNewlines ==
    pc # "panicked" =>
        parser.scanner.line = LineAt(src, Consumed(parser.scanner))

=============================================================================
